---- MODULE Spec2Model ----
(***************************************************************************)
(* Model of src/src/main.py (HoroskopySlackScraper): the matrix builder    *)
(* format_compatibility_data, the relationship extractor                   *)
(* generate_relationship_summary and the delivery pipeline                 *)
(* send_daily_horoscope / send_message_and_table.                          *)
(*                                                                         *)
(* A Python str is a sequence of characters; a character is a one-letter   *)
(* TLA+ string, except the two accented letters, written "y_acute" and     *)
(* "Y_acute" (U+00FD, U+00DD).  A dict is a sequence of entries with       *)
(* distinct keys, in insertion order.                                      *)
(***************************************************************************)
EXTENDS Integers, Sequences, FiniteSets, TLC

(***************************************************************************)
(* Characters and the str methods the program calls.                       *)
(***************************************************************************)

\* Unicode code point of a character: what Python compares strings by.
Code(c) ==
  CASE c = " " -> 32 [] c = "%" -> 37 [] c = "," -> 44 [] c = "-" -> 45
    [] c = "0" -> 48 [] c = "1" -> 49 [] c = "2" -> 50 [] c = "4" -> 52
    [] c = "6" -> 54 [] c = "8" -> 56
    [] c = "A" -> 65 [] c = "B" -> 66 [] c = "C" -> 67 [] c = "E" -> 69
    [] c = "I" -> 73 [] c = "K" -> 75 [] c = "L" -> 76 [] c = "O" -> 79
    [] c = "R" -> 82 [] c = "V" -> 86 [] c = "X" -> 88 [] c = "Y" -> 89
    [] c = "a" -> 97 [] c = "b" -> 98 [] c = "c" -> 99 [] c = "e" -> 101
    [] c = "i" -> 105 [] c = "k" -> 107 [] c = "l" -> 108 [] c = "o" -> 111
    [] c = "r" -> 114 [] c = "v" -> 118 [] c = "x" -> 120 [] c = "y" -> 121
    [] c = "Y_acute" -> 221 [] c = "y_acute" -> 253

\* str.lower() on one character.
LowerChar(c) ==
  CASE c = "A" -> "a" [] c = "B" -> "b" [] c = "C" -> "c" [] c = "E" -> "e"
    [] c = "I" -> "i" [] c = "K" -> "k" [] c = "L" -> "l" [] c = "O" -> "o"
    [] c = "R" -> "r" [] c = "V" -> "v" [] c = "X" -> "x" [] c = "Y" -> "y"
    [] c = "Y_acute" -> "y_acute"
    [] OTHER -> c

\* str.upper() on one character (the first character under capitalize()).
UpperChar(c) ==
  CASE c = "a" -> "A" [] c = "b" -> "B" [] c = "c" -> "C" [] c = "e" -> "E"
    [] c = "i" -> "I" [] c = "k" -> "K" [] c = "l" -> "L" [] c = "o" -> "O"
    [] c = "r" -> "R" [] c = "v" -> "V" [] c = "x" -> "X" [] c = "y" -> "Y"
    [] c = "y_acute" -> "Y_acute"
    [] OTHER -> c

\* NFD decomposition with the combining marks (category Mn) dropped.
BaseChar(c) ==
  CASE c = "y_acute" -> "y" [] c = "Y_acute" -> "Y" [] OTHER -> c

\* Value of a decimal digit, -1 for any other character.
DigitVal(c) ==
  CASE c = "0" -> 0 [] c = "1" -> 1 [] c = "2" -> 2 [] c = "4" -> 4
    [] c = "6" -> 6 [] c = "8" -> 8 [] OTHER -> -1

Lower(s) == [i \in 1..Len(s) |-> LowerChar(s[i])]

Capitalize(s) ==
  IF s = <<>> THEN s ELSE <<UpperChar(s[1])>> \o Lower(Tail(s))

\* str.strip(): leading and trailing whitespace removed.
Strip(s) ==
  LET idx == {i \in 1..Len(s) : s[i] # " "}
  IN  IF idx = {} THEN <<>>
      ELSE LET lo == CHOOSE i \in idx : \A j \in idx : i <= j
               hi == CHOOSE i \in idx : \A j \in idx : i >= j
           IN  SubSeq(s, lo, hi)

\* str.split(sep) for a one-character separator: never an empty list.
RECURSIVE Split(_, _)
Split(s, sep) ==
  IF \A i \in 1..Len(s) : s[i] # sep THEN <<s>>
  ELSE LET i == CHOOSE k \in 1..Len(s) :
                   s[k] = sep /\ \A j \in 1..(k - 1) : s[j] # sep
       IN  <<SubSeq(s, 1, i - 1)>> \o Split(SubSeq(s, i + 1, Len(s)), sep)

\* sep.join(parts).
RECURSIVE Join(_, _)
Join(sep, parts) ==
  IF parts = <<>> THEN <<>>
  ELSE IF Len(parts) = 1 THEN parts[1]
  ELSE parts[1] \o sep \o Join(sep, Tail(parts))

CommaSpace == <<",", " ">>

\* Python's < on str: lexicographic by code point.
StrLess(a, b) ==
  \E k \in 1..(Len(b)) :
    /\ k <= Len(a) + 1
    /\ \A j \in 1..(k - 1) : a[j] = b[j]
    /\ (k = Len(a) + 1 \/ Code(a[k]) < Code(b[k]))

\* sorted(S) for a set of str.
RECURSIVE Sorted(_)
Sorted(S) ==
  IF S = {} THEN <<>>
  ELSE LET m == CHOOSE x \in S : \A y \in S : y = x \/ StrLess(x, y)
       IN  <<m>> \o Sorted(S \ {m})

\* percent[:-1]
DropLast(s) == IF s = <<>> THEN s ELSE SubSeq(s, 1, Len(s) - 1)

RECURSIVE DigitsValue(_)
DigitsValue(s) ==
  IF s = <<>> THEN 0 ELSE 10 * DigitsValue(DropLast(s)) + DigitVal(s[Len(s)])

\* int(s): surrounding whitespace ignored, an optional sign, then at least
\* one digit; anything else raises ValueError (ok = FALSE).
ParseInt(s) ==
  LET t == Strip(s)
      neg == t # <<>> /\ t[1] = "-"
      d == IF neg THEN Tail(t) ELSE t
  IN  IF d # <<>> /\ \A i \in 1..Len(d) : DigitVal(d[i]) >= 0
      THEN [ok |-> TRUE, val |-> IF neg THEN 0 - DigitsValue(d) ELSE DigitsValue(d)]
      ELSE [ok |-> FALSE, val |-> 0]

(***************************************************************************)
(* Program constants.                                                      *)
(***************************************************************************)

\* PERCENTAGES (line 26).
PERCENTAGES ==
  << <<"1","0","0","%">>, <<"8","0","%">>, <<"6","0","%">>, <<"4","0","%">>,
     <<"2","0","%">>, <<"0","%">>, <<"-","2","0","%">>, <<"-","4","0","%">>,
     <<"-","6","0","%">>, <<"-","8","0","%">>, <<"-","1","0","0","%">> >>

\* The two relationship types send_daily_horoscope passes (lines 296-297),
\* written without their diacritics.
Kamarad == "kamarad"
Nepritel == "nepritel"

(***************************************************************************)
(* dict helpers: a dict is a sequence of [sign, ...] entries.              *)
(***************************************************************************)

Range(f) == {f[i] : i \in DOMAIN f}

\* part in names_zodiacs
RegHas(reg, key) == \E i \in 1..Len(reg) : reg[i].sign = key

\* names_zodiacs[part]
RegGet(reg, key) == reg[CHOOSE i \in 1..Len(reg) : reg[i].sign = key].names

(***************************************************************************)
(* format_compatibility_data (lines 68-89).                                *)
(***************************************************************************)

\* Lines 79-82: the name groups of the parts that are registry keys with a
\* non-empty list, in part order.
\* NormalizePart without the lower-casing.
NormalizePart_NoLower(part) == Strip(part)

\* Line 80: part.strip().lower()
NormalizePart(part) == Lower(Strip(part))

RECURSIVE MatchedNames(_, _)
MatchedNames(parts, names_zodiacs) ==
  IF parts = <<>> THEN <<>>
  ELSE LET part == NormalizePart(parts[1])
           rest == MatchedNames(Tail(parts), names_zodiacs)
       IN  IF RegHas(names_zodiacs, part) /\ RegGet(names_zodiacs, part) # <<>>
           THEN <<Join(CommaSpace, RegGet(names_zodiacs, part))>> \o rest
           ELSE rest

\* Lines 77-83: one raw value turned into one cell.
FormatValue(value, names_zodiacs) ==
  Join(CommaSpace, MatchedNames(Split(value, ","), names_zodiacs))

\* Lines 75-83: the formatted_values of one sign.
FormattedValues(values, names_zodiacs) ==
  [i \in 1..Len(values) |-> FormatValue(values[i], names_zodiacs)]

\* Line 84: df_data[sign.capitalize()] = formatted_values; a later sign with
\* the same capitalized label overwrites an earlier one.
DfData(horoscope_data, names_zodiacs) ==
  LET labels == {Capitalize(horoscope_data[i].sign) : i \in 1..Len(horoscope_data)}
      last(c) == CHOOSE i \in 1..Len(horoscope_data) :
                   /\ Capitalize(horoscope_data[i].sign) = c
                   /\ \A j \in (i + 1)..Len(horoscope_data) :
                        Capitalize(horoscope_data[j].sign) # c
  IN  [c \in labels |-> FormattedValues(horoscope_data[last(c)].values, names_zodiacs)]

\* Line 86: pd.DataFrame(df_data) raises ValueError ("All arrays must be of
\* the same length") unless every column is as long as the Percent column.
SameLength(percentages, data) ==
  \A c \in DOMAIN data : Len(data[c]) = Len(percentages)

NoDf == [index |-> <<>>, data |-> <<>>]

\* The call's outcome: the exception raised ("none" for a normal return) and
\* the DataFrame, indexed by the percentage labels (line 87).
format_compatibility_data(horoscope_data, percentages, names_zodiacs) ==
  LET data == DfData(horoscope_data, names_zodiacs)
  IN  IF SameLength(percentages, data)
      THEN [exc |-> "none", df |-> [index |-> percentages, data |-> data]]
      ELSE [exc |-> "ValueError", df |-> NoDf]

(***************************************************************************)
(* generate_relationship_summary (lines 244-286).                          *)
(***************************************************************************)

\* _remove_diacritics (lines 236-241).
RemoveDiacritics(text) == [i \in 1..Len(text) |-> BaseChar(text[i])]

\* Line 251.
ZodiacNoDiacritics(zodiac) == Capitalize(RemoveDiacritics(zodiac))

\* list.remove(x): the first occurrence only.
RemoveFirst(list, x) ==
  IF \E i \in 1..Len(list) : list[i] = x
  THEN LET i == CHOOSE k \in 1..Len(list) :
                  list[k] = x /\ \A j \in 1..(k - 1) : list[j] # x
       IN  SubSeq(list, 1, i - 1) \o SubSeq(list, i + 1, Len(list))
  ELSE list

\* StrippedNames without the "if n" filter.
StrippedNames_KeepEmpty(related_names) ==
  LET parts == Split(related_names, ",")
  IN  [i \in 1..Len(parts) |-> Strip(parts[i])]

\* Line 257: [n.strip() for n in related_names.split(',') if n]
StrippedNames(related_names) ==
  LET kept == SelectSeq(Split(related_names, ","), LAMBDA n : n # <<>>)
  IN  [i \in 1..Len(kept) |-> Strip(kept[i])]

\* Lines 257-259: the related names of one row, for one person.
RelatedNamesList(related_names, name) ==
  LET list == StrippedNames(related_names)
  IN  IF \E i \in 1..Len(list) : list[i] = name
      THEN RemoveFirst(list, name)
      ELSE list

\* Line 256: the rows whose label int(percent[:-1]) equals the percentage.
MatchingRows(df, percentage) ==
  {r \in 1..Len(df.index) : ParseInt(DropLast(df.index[r])).val = percentage}

\* HasColumn without the membership test.
HasColumn_Always(df, zodiac) == TRUE

\* Line 252.
HasColumn(df, zodiac) == ZodiacNoDiacritics(zodiac) \in DOMAIN df.data

\* Some row label makes int(percent[:-1]) (line 256) raise ValueError.
BadLabel(df) == \E r \in 1..Len(df.index) : ~ParseInt(DropLast(df.index[r])).ok

\* What the body of the loop raises for one registry entry: KeyError when
\* line 253 reads a column the frame does not have, ValueError when line 256
\* meets a label int() rejects (it is evaluated for every row, once the
\* sign has a person), "none" otherwise.
EntryRaises(df, entry) ==
  IF ~HasColumn(df, entry.sign) THEN "none"
  ELSE IF ZodiacNoDiacritics(entry.sign) \notin DOMAIN df.data THEN "KeyError"
  ELSE IF entry.names # <<>> /\ BadLabel(df) THEN "ValueError"
  ELSE "none"

\* The exception the loop of lines 250-263 ends with: that of the first
\* entry that raises.
LoopRaises(df, names_zodiacs) ==
  LET bad == {i \in 1..Len(names_zodiacs) : EntryRaises(df, names_zodiacs[i]) # "none"}
  IN  IF bad = {} THEN "none"
      ELSE EntryRaises(df, names_zodiacs[CHOOSE i \in bad : \A j \in bad : i <= j])

\* Lines 250-263: what the loops add to relationships_dict[name].
RelatedOf(df, names_zodiacs, percentage, name) ==
  UNION { Range(RelatedNamesList(df.data[ZodiacNoDiacritics(names_zodiacs[i].sign)][r], name)) :
            <<i, r>> \in { x \in (1..Len(names_zodiacs)) \X MatchingRows(df, percentage) :
                            /\ HasColumn(df, names_zodiacs[x[1]].sign)
                            /\ name \in Range(names_zodiacs[x[1]].names) } }

\* Lines 248-263: relationships_dict, a key only for a non-empty list (260).
RelationshipsDict(df, names_zodiacs, percentage) ==
  LET people == UNION {Range(names_zodiacs[i].names) : i \in 1..Len(names_zodiacs)}
  IN  [name \in {n \in people : RelatedOf(df, names_zodiacs, percentage, n) # {}}
         |-> RelatedOf(df, names_zodiacs, percentage, name)]

\* SortedPair without the sort.
SortedPair_Unsorted(name, person) == <<name, person>>

\* Line 268: tuple(sorted([name, person])).
SortedPair(name, person) ==
  IF StrLess(person, name) THEN <<person, name>> ELSE <<name, person>>

\* Lines 265-269.
UniqueRelationships(relationships_dict) ==
  {SortedPair(name, person) :
     <<name, person>> \in { x \in (DOMAIN relationships_dict) \X
                                  UNION Range(relationships_dict) :
                              x[2] \in relationships_dict[x[1]] } }

\* Lines 271-276.
AggregatedRelationships(unique_relationships) ==
  [key \in {r[1] : r \in unique_relationships}
     |-> {r[2] : r \in {q \in unique_relationships : q[1] = key}}]

\* Lines 278-284: one line per key; the line is kept as the fields the
\* f-string puts around its fixed words.
SummaryLine(name, related, relationship_type) ==
  [prefix |-> IF relationship_type = Nepritel THEN "-" ELSE "+",
   name |-> name,
   related_string |-> Join(CommaSpace, Sorted(related)),
   type |-> relationship_type]

\* The orders in which a set (or a dict filled from a set) can be iterated:
\* CPython's order depends on the hash seed and on the insertion history.
IterationOrders(S) ==
  {o \in [1..Cardinality(S) -> S] : \A i, j \in 1..Cardinality(S) : o[i] = o[j] => i = j}

\* Lines 278-286 for one iteration order of aggregated_relationships.
SummaryLines(aggregated, order, relationship_type) ==
  [i \in 1..Len(order) |->
     SummaryLine(order[i], aggregated[order[i]], relationship_type)]

\* The aggregated_relationships of a call that does not raise.
Aggregated(df, names_zodiacs, percentage) ==
  AggregatedRelationships(UniqueRelationships(RelationshipsDict(df, names_zodiacs, percentage)))

\* The outcomes of one call: an exception, or the lines in one of the orders
\* the set of pairs can be iterated in.
generate_relationship_summary(df, names_zodiacs, percentage, relationship_type) ==
  IF LoopRaises(df, names_zodiacs) # "none"
  THEN {[exc |-> LoopRaises(df, names_zodiacs), lines |-> <<>>]}
  ELSE LET aggregated == Aggregated(df, names_zodiacs, percentage)
       IN  {[exc |-> "none", lines |-> SummaryLines(aggregated, o, relationship_type)] :
              o \in IterationOrders(DOMAIN aggregated)}


(***************************************************************************)
(* State.                                                                  *)
(***************************************************************************)

VARIABLES
  names_zodiacs,     \* the NameRegistry (NAMES_ZODIACS, line 44)
  horoscope_data,    \* fetch_zodiac_data's result: sign -> raw values
  percentages,       \* the row labels handed to format_compatibility_data
  percentage,        \* the target band of the summary call
  relationship_type, \* its label
  df,                \* the DataFrame format_compatibility_data returned
  summary,           \* the lines generate_relationship_summary returned
  rerun,             \* the lines of a second run on the reordered input
  friends_summary,   \* send_daily_horoscope's locals (lines 296-297)
  enemies_summary,
  image,             \* whether html_to_image has written IMG_PATH
  slack,             \* the Slack calls made so far, with their outcome
  raised,            \* the exception that reached the caller, or "none"
  pc                 \* where the run is

vars == <<names_zodiacs, horoscope_data, percentages, percentage,
          relationship_type, df, summary, rerun, friends_summary,
          enemies_summary, image, slack, raised, pc>>

inputs == <<names_zodiacs, horoscope_data, percentages, percentage, relationship_type>>

(***************************************************************************)
(* Inputs.  Signs, people and raw tokens are a small vocabulary; every     *)
(* bound is named.  A person's name holds no comma and no blank at its     *)
(* ends, and a person stands under at most one registry key.               *)
(***************************************************************************)

Alice == <<"A", "l", "i", "c", "e">>
Bob == <<"B", "o", "b">>
Cara == <<"C", "a", "r", "a">>
People == <<Alice, Bob, Cara>>

\* Fetcher keys: two entries of ZODIACS (lines 21-24).
SignLev == <<"l", "e", "v">>
SignByk == <<"b", "y", "k">>

\* Registry keys: "lev", "býk" as the site spells it, and "Lev" as a key
\* that is not in lower case.
KeyLev == <<"l", "e", "v">>
KeyByk == <<"b", "y_acute", "k">>
KeyLevCap == <<"L", "e", "v">>

\* Sign names as the site prints them inside a raw value.
TokenLev == <<"L", "e", "v">>
TokenByk == <<"B", "y_acute", "k">>
Tokens == {TokenLev, TokenByk}

\* Most tokens in all the raw values of one Fetcher result.
MaxTokens == 2

\* Rows of the matrix in the function-level runs (PERCENTAGES has 11).
Label100 == PERCENTAGES[1]
LabelMinus100 == PERCENTAGES[11]
TwoBands == <<Label100, LabelMinus100>>

\* Row labels that are not a signed integer followed by "%": "100" and
\* "1000" (no "%"), "x%", "%" and the empty label.
MalformedLabels ==
  { <<"1", "0", "0">>, <<"1", "0", "0", "0">>, <<"x", "%">>, <<"%">>, <<>> }

Reverse(s) == [i \in 1..Len(s) |-> s[Len(s) + 1 - i]]

\* All sequences over S of length at most n.
SeqsUpTo(S, n) == UNION {[1..k -> S] : k \in 0..n}

\* Line 62: the text of one <li>, a single space when it is empty.
RawValue(tokens) == IF tokens = <<>> THEN <<" ">> ELSE Join(CommaSpace, tokens)

\* Registries over two keys: every person is under one key or under none.
Registries(k1, k2) ==
  { LET under(k) == SelectSeq(People, LAMBDA p : \E i \in 1..Len(People) : People[i] = p /\ a[i] = k)
    IN  <<[sign |-> k1, names |-> under(1)], [sign |-> k2, names |-> under(2)]>> :
      a \in [1..Len(People) -> 0..2] }

\* Fetcher results with a full value list for both signs and at most n
\* tokens in all.
DataWithTokens(n) ==
  { <<[sign |-> SignLev, values |-> <<RawValue(c[1]), RawValue(c[2])>>],
      [sign |-> SignByk, values |-> <<RawValue(c[3]), RawValue(c[4])>>]>> :
      c \in { x \in [1..4 -> SeqsUpTo(Tokens, n)] :
                Len(x[1]) + Len(x[2]) + Len(x[3]) + Len(x[4]) <= n } }

\* The same with the page of one sign lacking its <div> (line 58).
DataWithMissingSign == UNION { {<<d[1]>>, <<d[2]>>} : d \in DataWithTokens(MaxTokens) }

\* Fetcher results without any token: signs absent, value lists of every
\* length up to the number of rows, cells empty or the placeholder.
EmptyCells == { <<>>, <<" ">> }
DataWithoutTokens ==
  LET lists == SeqsUpTo(EmptyCells, Len(TwoBands))
  IN  {<<>>}
      \cup { <<[sign |-> s, values |-> v]>> : s \in {SignLev, SignByk}, v \in lists }
      \cup { <<[sign |-> SignLev, values |-> v], [sign |-> SignByk, values |-> w]>> :
               v \in lists, w \in lists }

\* A local of send_daily_horoscope that is not assigned yet.
Unbound == [bound |-> FALSE, lines |-> <<>>]

InitRun ==
  /\ df = NoDf
  /\ summary = <<>>
  /\ rerun = <<>>
  /\ friends_summary = Unbound
  /\ enemies_summary = Unbound
  /\ image = "none"
  /\ slack = <<>>
  /\ raised = "none"

Targets == {<<100, Kamarad>>, <<0 - 100, Nepritel>>}

\* Inputs rich in tokens, under well-formed labels and lower-case keys.
InitTokens ==
  /\ names_zodiacs \in Registries(KeyLev, KeyByk) \cup {<<>>}
  /\ horoscope_data \in DataWithTokens(MaxTokens)
  /\ percentages = TwoBands

\* Inputs whose registry spells one key with a capital.
InitCapitalKey ==
  /\ names_zodiacs \in Registries(KeyLevCap, KeyByk)
  /\ horoscope_data \in DataWithTokens(1)
  /\ percentages = TwoBands

\* Inputs with absent signs, short value lists and empty cells.
InitShapes ==
  /\ names_zodiacs \in Registries(KeyLev, KeyByk) \cup {<<>>}
  /\ horoscope_data \in DataWithoutTokens \cup DataWithMissingSign
  /\ percentages = TwoBands

\* Inputs whose first row label is malformed.
InitLabels ==
  /\ names_zodiacs \in Registries(KeyLev, KeyByk) \cup {<<>>}
  /\ horoscope_data \in DataWithTokens(1)
  /\ percentages \in { <<l, LabelMinus100>> : l \in MalformedLabels }

Init ==
  /\ InitRun
  /\ pc = "start"
  /\ \E t \in Targets : percentage = t[1] /\ relationship_type = t[2]
  /\ (InitTokens \/ InitCapitalKey \/ InitShapes \/ InitLabels)

(***************************************************************************)
(* Function-level runs: the matrix is built, then summarised, then the     *)
(* same content is run again with the dicts iterated in the other order.   *)
(***************************************************************************)

CallFormat ==
  /\ pc = "start"
  /\ LET r == format_compatibility_data(horoscope_data, percentages, names_zodiacs)
     IN  /\ df' = r.df
         /\ raised' = r.exc
         /\ pc' = IF r.exc = "none" THEN "formatted" ELSE "format_raised"
  /\ UNCHANGED <<inputs, summary, rerun, friends_summary, enemies_summary, image, slack>>

CallSummary ==
  /\ pc = "formatted"
  /\ \E r \in generate_relationship_summary(df, names_zodiacs, percentage, relationship_type) :
       /\ summary' = r.lines
       /\ raised' = r.exc
       /\ pc' = IF r.exc = "none" THEN "summarised" ELSE "summary_raised"
  /\ UNCHANGED <<inputs, df, rerun, friends_summary, enemies_summary, image, slack>>

CallShuffled ==
  /\ pc = "summarised"
  /\ LET f == format_compatibility_data(Reverse(horoscope_data), percentages,
                                        Reverse(names_zodiacs))
     IN  \E r \in generate_relationship_summary(f.df, Reverse(names_zodiacs),
                                                percentage, relationship_type) :
           /\ rerun' = r.lines
           /\ pc' = "done"
  /\ UNCHANGED <<inputs, df, summary, friends_summary, enemies_summary, image, slack, raised>>

Next == CallFormat \/ CallSummary \/ CallShuffled

Spec == Init /\ [][Next]_vars
(***************************************************************************)
(* send_daily_horoscope (lines 289-304) with send_message_and_table        *)
(* (lines 208-233), one step per statement that can be observed.           *)
(***************************************************************************)

\* One sign's page: eleven <li> texts, of which the first and the last may
\* name a sign.
FullValues(first, last) ==
  [i \in 1..Len(PERCENTAGES) |->
     IF i = 1 THEN RawValue(first)
     ELSE IF i = Len(PERCENTAGES) THEN RawValue(last) ELSE <<" ">>]

\* What fetch_zodiac_data can return for one sign (lines 57-63): nothing
\* (no <div>), an empty list (a <div> without <li>), or eleven values.
PageValues ==
  {<<>>} \cup {FullValues(a, b) : a \in SeqsUpTo(Tokens, 1), b \in SeqsUpTo(Tokens, 1)}

FetchResults ==
  {<<>>}
  \cup { <<[sign |-> s, values |-> v]>> : s \in {SignLev, SignByk}, v \in PageValues }
  \cup { <<[sign |-> SignLev, values |-> v], [sign |-> SignByk, values |-> w]>> :
           v \in PageValues, w \in PageValues }

InitMain ==
  /\ InitRun
  /\ pc = "fetch"
  /\ names_zodiacs \in Registries(KeyLev, KeyByk) \cup {<<>>}
  /\ horoscope_data = <<>>
  /\ percentages = PERCENTAGES
  /\ percentage = 100
  /\ relationship_type = Kamarad

locals == <<df, summary, rerun, friends_summary, enemies_summary, image>>

\* Line 293; requests.get (line 54) may raise, and nothing catches it.
MainFetch ==
  /\ pc = "fetch"
  /\ \E ok \in BOOLEAN :
       IF ok
       THEN \E h \in FetchResults :
              horoscope_data' = h /\ raised' = "none" /\ pc' = "format"
       ELSE horoscope_data' = horoscope_data /\ raised' = "RequestException"
            /\ pc' = "main_raised"
  /\ UNCHANGED <<names_zodiacs, percentages, percentage, relationship_type, locals, slack>>

\* Line 294.
MainFormat ==
  /\ pc = "format"
  /\ LET r == format_compatibility_data(horoscope_data, PERCENTAGES, names_zodiacs)
     IN  /\ df' = r.df
         /\ raised' = r.exc
         /\ pc' = IF r.exc = "none" THEN "friends" ELSE "main_raised"
  /\ UNCHANGED <<inputs, summary, rerun, friends_summary, enemies_summary, image, slack>>

\* Line 296.
MainFriends ==
  /\ pc = "friends"
  /\ \E r \in generate_relationship_summary(df, names_zodiacs, 100, Kamarad) :
       /\ friends_summary' = [bound |-> r.exc = "none", lines |-> r.lines]
       /\ raised' = r.exc
       /\ pc' = IF r.exc = "none" THEN "enemies" ELSE "main_raised"
  /\ UNCHANGED <<inputs, df, summary, rerun, enemies_summary, image, slack>>

\* Line 297.
MainEnemies ==
  /\ pc = "enemies"
  /\ \E r \in generate_relationship_summary(df, names_zodiacs, 0 - 100, Nepritel) :
       /\ enemies_summary' = [bound |-> r.exc = "none", lines |-> r.lines]
       /\ raised' = r.exc
       /\ pc' = IF r.exc = "none" THEN "render" ELSE "main_raised"
  /\ UNCHANGED <<inputs, df, summary, rerun, friends_summary, image, slack>>

\* Lines 301-302: the table is rendered to IMG_PATH; imgkit may raise
\* OSError, and nothing catches it.
MainRender ==
  /\ pc = "render"
  /\ \E ok \in BOOLEAN :
       /\ image' = IF ok THEN "rendered" ELSE image
       /\ raised' = IF ok THEN "none" ELSE "OSError"
       /\ pc' = IF ok THEN "post" ELSE "main_raised"
  /\ UNCHANGED <<inputs, df, summary, rerun, friends_summary, enemies_summary, slack>>

\* AfterPost with the upload outside the try block's normal flow.
AfterPost_AlwaysUpload(ok) == "upload"

\* Lines 212-233: where control goes after chat_postMessage returned (ok)
\* or raised SlackApiError, which the except clause catches.
AfterPost(ok) == IF ok THEN "upload" ELSE "returned"

\* Lines 218-221: the message carries the combined summary (line 299).
PostMessage ==
  /\ pc = "post"
  /\ \E ok \in BOOLEAN :
       /\ slack' = Append(slack, [call |-> "chat_postMessage", ok |-> ok,
                                  payload |-> <<friends_summary.lines, enemies_summary.lines>>])
       /\ pc' = AfterPost(ok)
  /\ UNCHANGED <<inputs, locals, raised>>

\* Lines 225-229; a SlackApiError is caught as well (line 232).
UploadFile ==
  /\ pc = "upload"
  /\ \E ok \in BOOLEAN :
       /\ slack' = Append(slack, [call |-> "files_upload_v2", ok |-> ok,
                                  payload |-> <<image>>])
       /\ pc' = "returned"
  /\ UNCHANGED <<inputs, locals, raised>>

NextMain ==
  \/ MainFetch \/ MainFormat \/ MainFriends \/ MainEnemies \/ MainRender
  \/ PostMessage \/ UploadFile

SpecMain == InitMain /\ [][NextMain]_vars

(***************************************************************************)
(* Properties of the function-level runs (Spec).                           *)
(***************************************************************************)

AfterFormat == pc \notin {"start", "format_raised"}
AfterSummary == pc \in {"summarised", "done"}

\* The partners a reader finds in a line: its comma-separated names.
PartnersOf(line) ==
  IF line.related_string = <<>> THEN <<>>
  ELSE LET parts == Split(line.related_string, ",")
       IN  [i \in 1..Len(parts) |-> Strip(parts[i])]

\* The people of the registry.
Registered == UNION {Range(names_zodiacs[i].names) : i \in 1..Len(names_zodiacs)}

\* A row label is an optional "-", at least one digit, then "%".
WellFormedLabel(l) ==
  /\ Len(l) >= 2
  /\ l[Len(l)] = "%"
  /\ LET d == IF l[1] = "-" THEN SubSeq(l, 2, Len(l) - 1) ELSE SubSeq(l, 1, Len(l) - 1)
     IN  d # <<>> /\ \A i \in 1..Len(d) : DigitVal(d[i]) >= 0

LabelsParse == \A r \in 1..Len(percentages) : WellFormedLabel(percentages[r])

\* The label of the target band, and the rows that carry it.
TargetLabel == IF percentage = 100 THEN Label100 ELSE LabelMinus100
TargetRows == {r \in 1..Len(percentages) : percentages[r] = TargetLabel}

\* The matrix column of a registry sign, if any.
ColumnLabel(sign) == Capitalize(RemoveDiacritics(sign))
InMatrix(sign) == AfterFormat /\ ColumnLabel(sign) \in DOMAIN df.data

\* The names in the matrix cells of a sign's column at the target band.
CellNames(sign) ==
  IF ~InMatrix(sign) THEN {}
  ELSE UNION { IF df.data[ColumnLabel(sign)][r] = <<>> THEN {}
               ELSE LET parts == Split(df.data[ColumnLabel(sign)][r], ",")
                    IN  {Strip(parts[i]) : i \in 1..Len(parts)} :
               r \in TargetRows }

\* The names the matrix relates to person P at the target band.
NamesFor(P) ==
  UNION {CellNames(names_zodiacs[i].sign) :
           i \in {k \in 1..Len(names_zodiacs) : P \in Range(names_zodiacs[k].names)}}

\* C1: no line of the summary lists its anchor name among its partners.
C1_NoSelfPairs ==
  AfterSummary =>
    \A i \in 1..Len(summary) : summary[i].name \notin Range(PartnersOf(summary[i]))

\* How often partner b stands in a line anchored on a.
Occurrences(a, b) ==
  Cardinality(UNION { { <<i, k>> : k \in {j \in 1..Len(PartnersOf(summary[i])) :
                                            PartnersOf(summary[i])[j] = b} } :
                      i \in {l \in 1..Len(summary) : summary[l].name = a} })

Linked(P, N) == P # N /\ (N \in NamesFor(P) \/ P \in NamesFor(N))

\* C2: two distinct people linked at the target band, from either side or
\* from both, are recorded exactly once: in the line anchored on the smaller
\* name, and in no line anchored on the larger one.
C2_Symmetry ==
  AfterSummary =>
    \A P \in Registered : \A N \in Registered \cup NamesFor(P) :
      (Linked(P, N) /\ StrLess(P, N)) =>
        (Occurrences(P, N) = 1 /\ Occurrences(N, P) = 0)

\* C2's case: a pair the matrix holds from both sides has been summarised.
C2_Witness ==
  /\ AfterSummary
  /\ \E P \in Registered : \E N \in Registered :
       P # N /\ N \in NamesFor(P) /\ P \in NamesFor(N) /\ Occurrences(P, N) = 1

\* C3: a summary is returned only when every row label is well formed; a
\* malformed one ends the call with an error.
C3_MalformedLabelRaises ==
  AfterSummary => \A r \in 1..Len(df.index) : WellFormedLabel(df.index[r])

\* The registry keys are in the form line 80 gives a token.
KeysNormalized ==
  \A i \in 1..Len(names_zodiacs) :
    names_zodiacs[i].sign = Lower(Strip(names_zodiacs[i].sign))

\* The people of the signs the tokens name, in token order; a token that is
\* no registry sign, or a sign without people, adds nobody.
RECURSIVE NamedPeople(_)
NamedPeople(tokens) ==
  IF tokens = <<>> THEN <<>>
  ELSE LET hit == {i \in 1..Len(names_zodiacs) :
                     Lower(Strip(names_zodiacs[i].sign)) = Lower(Strip(tokens[1]))}
       IN  (IF hit = {} THEN <<>> ELSE names_zodiacs[CHOOSE i \in hit : TRUE].names)
           \o NamedPeople(Tail(tokens))

\* C4: with registry keys in the normalized form, every cell of the matrix
\* is the ", "-joined list of the people its raw value's tokens name.
C4_CellContent ==
  (AfterFormat /\ KeysNormalized) =>
    \A j \in 1..Len(horoscope_data) : \A b \in 1..Len(horoscope_data[j].values) :
      df.data[Capitalize(horoscope_data[j].sign)][b]
        = Join(CommaSpace, NamedPeople(Split(horoscope_data[j].values[b], ",")))

\* C4's case: a raw value of two tokens became a cell of several people.
C4_Witness ==
  /\ pc = "formatted"
  /\ KeysNormalized
  /\ \E j \in 1..Len(horoscope_data) : \E b \in 1..Len(horoscope_data[j].values) :
       /\ Len(Split(horoscope_data[j].values[b], ",")) = 2
       /\ Len(NamedPeople(Split(horoscope_data[j].values[b], ","))) >= 2
       /\ df.data[Capitalize(horoscope_data[j].sign)][b] # <<>>

IsSorted(names) == \A i \in 1..(Len(names) - 1) : StrLess(names[i], names[i + 1])

\* C5: the partners of every line are sorted, and the second run, on the
\* same content iterated in the other order, returns the same lines in the
\* same order.
C5_SameTextOnRerun ==
  /\ AfterSummary => \A i \in 1..Len(summary) : IsSorted(PartnersOf(summary[i]))
  /\ pc = "done" => rerun = summary

\* Every sign has one raw value per row, each empty or the placeholder.
AllEmpty ==
  \A j \in 1..Len(horoscope_data) :
    /\ Len(horoscope_data[j].values) = Len(percentages)
    /\ \A b \in 1..Len(horoscope_data[j].values) :
         horoscope_data[j].values[b] \in {<<>>, <<" ">>}

\* C6: an all-empty Fetcher result gives, without an error, a matrix of
\* empty cells and an empty summary.
C6_EmptyInput ==
  (AllEmpty /\ LabelsParse) =>
    /\ raised = "none"
    /\ pc \notin {"format_raised", "summary_raised"}
    /\ pc # "start" =>
         /\ DOMAIN df.data = {Capitalize(horoscope_data[j].sign) : j \in 1..Len(horoscope_data)}
         /\ \A c \in DOMAIN df.data : \A r \in 1..Len(df.data[c]) : df.data[c][r] = <<>>
    /\ AfterSummary => summary = <<>>
    /\ pc = "done" => rerun = <<>>

\* C6's case: empty cells under a fetched sign that has people, summarised.
C6_Witness ==
  /\ AllEmpty
  /\ AfterSummary
  /\ \E i \in 1..Len(names_zodiacs) :
       names_zodiacs[i].names # <<>> /\ InMatrix(names_zodiacs[i].sign)
  /\ \E j \in 1..Len(horoscope_data) : <<" ">> \in Range(horoscope_data[j].values)

\* The registry without the signs that have no column.
WithoutMissing == SelectSeq(names_zodiacs, LAMBDA e : InMatrix(e.sign))

\* All cells of the target band are empty.
EmptyBand ==
  \A c \in DOMAIN df.data : \A r \in 1..Len(df.index) :
    ParseInt(DropLast(df.index[r])) = [ok |-> TRUE, val |-> percentage] => df.data[c][r] = <<>>

\* C7: a registry sign without a column raises nothing and changes nothing:
\* the call ends as it does on the registry without that sign; an empty
\* registry and an empty band give an empty summary.
C7_MissingColumn ==
  /\ pc \in {"summarised", "done", "summary_raised"} =>
       [exc |-> raised, lines |-> summary]
         \in generate_relationship_summary(df, WithoutMissing, percentage, relationship_type)
  /\ LabelsParse => pc # "summary_raised"
  /\ (AfterSummary /\ (names_zodiacs = <<>> \/ EmptyBand)) => summary = <<>>

\* C7's case: a sign with people has no column, and the other sign's
\* column gave a summary.
C7_Witness ==
  /\ AfterSummary
  /\ summary # <<>>
  /\ \E i \in 1..Len(names_zodiacs) :
       names_zodiacs[i].names # <<>> /\ ~InMatrix(names_zodiacs[i].sign)

\* C8: building the matrix never raises, whatever the lengths of the value
\* lists.
C8_ShortListsDoNotRaise == pc # "format_raised"

\* The sign of a registered person, and its raw value at the target band.
SignOf(P) ==
  names_zodiacs[CHOOSE i \in 1..Len(names_zodiacs) : P \in Range(names_zodiacs[i].names)].sign
RawCells(sign) ==
  { horoscope_data[j].values[r] :
      <<j, r>> \in { x \in (1..Len(horoscope_data)) \X TargetRows :
                      /\ horoscope_data[x[1]].sign = Lower(RemoveDiacritics(sign))
                      /\ x[2] <= Len(horoscope_data[x[1]].values) } }
\* The raw value of P's sign at the target band names N's sign.
RawNames(P, N) ==
  \E cell \in RawCells(SignOf(P)) :
    \E t \in Range(Split(cell, ",")) : Lower(Strip(t)) = SignOf(N)

ExpectedPairs ==
  { {x[1], x[2]} : x \in { y \in Registered \X Registered :
                             y[1] # y[2] /\ (RawNames(y[1], y[2]) \/ RawNames(y[2], y[1])) } }
RenderedPairs ==
  UNION { { {summary[i].name, q} : q \in Range(PartnersOf(summary[i])) } : i \in 1..Len(summary) }

\* Every Fetcher key is the ASCII lower-case form of a registry sign.
FetcherKeysAreRegistrySigns ==
  \A j \in 1..Len(horoscope_data) : \E i \in 1..Len(names_zodiacs) :
    horoscope_data[j].sign = Lower(RemoveDiacritics(names_zodiacs[i].sign))

\* C9: the rendered pairs are exactly the pairs of distinct people one of
\* whose signs names the other's in its raw value at the target band.
C9_PairsExact ==
  (AfterSummary /\ FetcherKeysAreRegistrySigns /\ percentages = TwoBands) =>
    RenderedPairs = ExpectedPairs

\* The same, leaving aside the pairs of a person with themself.
C9_ExactButForSelfPairs ==
  (AfterSummary /\ FetcherKeysAreRegistrySigns /\ percentages = TwoBands) =>
    {p \in RenderedPairs : Cardinality(p) = 2} = ExpectedPairs

(***************************************************************************)
(* Properties of the pipeline (SpecMain).                                  *)
(***************************************************************************)

\* C10: no Slack call is made before the matrix, both summaries and the
\* image exist; the upload is attempted only after the message was posted,
\* never after a failed post; and no SlackApiError reaches the caller.
C10_DeliveryOrder ==
  /\ slack # <<>> =>
       /\ df.index = PERCENTAGES
       /\ friends_summary.bound
       /\ enemies_summary.bound
       /\ image = "rendered"
       /\ slack[1].call = "chat_postMessage"
       /\ slack[1].payload = <<friends_summary.lines, enemies_summary.lines>>
  /\ \A k \in 1..Len(slack) :
       slack[k].call = "files_upload_v2" => (k = 2 /\ slack[1].ok)
  /\ (slack # <<>> /\ ~slack[1].ok) => Len(slack) = 1
  /\ raised # "SlackApiError"
  /\ pc = "returned" => raised = "none"

\* C10's case: posting the message failed, and the call returned without an
\* upload.
C10_Witness ==
  /\ pc = "returned"
  /\ Len(slack) = 1
  /\ ~slack[1].ok
  /\ friends_summary.lines # <<>>
====
